---- MODULE Spec2Model ----
(***************************************************************************)
(* Model of the dexdump symbolicator of redex                              *)
(* (tools/python/symbolicator/dexdump.py) and of the driver that feeds it  *)
(* (main() of tools/python/symbolicator/symbolicator.py).                  *)
(*                                                                         *)
(* A Python string is a sequence of one-character strings, so that the     *)
(* regular expressions, the "/" <-> "." conversions, int() and "%d" are    *)
(* computed on the characters as the code computes them.  An optional      *)
(* value (None or a value) is a sequence of length 0 or 1.                 *)
(***************************************************************************)
EXTENDS Integers, Sequences, FiniteSets, TLC

None == <<>>
Some(x) == <<x>>

-----------------------------------------------------------------------------
(* Characters and character classes of the patterns.                       *)

Lower ==
    {"a","b","c","d","e","f","g","h","i","j","k","l","m",
     "n","o","p","q","r","s","t","u","v","w","x","y","z"}
Upper ==
    {"A","B","C","D","E","F","G","H","I","J","K","L","M",
     "N","O","P","Q","R","S","T","U","V","W","X","Y","Z"}
\* "0" .. "9": the digits of [0-9] and of "%d"
DigitChars ==
    <<"0","1","2","3","4","5","6","7","8","9">>
\* [0-9]
Digit09 ==
    {DigitChars[i] : i \in 1..10}
\* The patterns are str patterns, which Python 3 compiles Unicode-aware:
\* \d, \s and \w (hence \b) hold characters beyond ASCII.  A character
\* beyond ASCII is one element of a line as any other: the string of the
\* bytes of its UTF-8 encoding, or the character itself up to U+00FF.

\* The decimal digits beyond ASCII, in runs of ten from the digit of value
\* 0 to the digit of value 9, as int() reads them
DecimalDigits ==
  <<<<"Ù ","Ù¡","Ù¢","Ù£","Ù¤",
       "Ù¥","Ù¦","Ù§","Ù¨","Ù©">>,
     <<"Û°","Û±","Û²","Û³","Û´",
       "Ûµ","Û¶","Û·","Û¸","Û¹">>,
     <<"ß","ß","ß","ß","ß",
       "ß","ß","ß","ß","ß">>,
     <<"à¥¦","à¥§","à¥¨","à¥©","à¥ª",
       "à¥«","à¥¬","à¥­","à¥®","à¥¯">>,
     <<"à§¦","à§§","à§¨","à§©","à§ª",
       "à§«","à§¬","à§­","à§®","à§¯">>,
     <<"à©¦","à©§","à©¨","à©©","à©ª",
       "à©«","à©¬","à©­","à©®","à©¯">>,
     <<"à«¦","à«§","à«¨","à«©","à«ª",
       "à««","à«¬","à«­","à«®","à«¯">>,
     <<"à­¦","à­§","à­¨","à­©","à­ª",
       "à­«","à­¬","à­­","à­®","à­¯">>,
     <<"à¯¦","à¯§","à¯¨","à¯©","à¯ª",
       "à¯«","à¯¬","à¯­","à¯®","à¯¯">>,
     <<"à±¦","à±§","à±¨","à±©","à±ª",
       "à±«","à±¬","à±­","à±®","à±¯">>,
     <<"à³¦","à³§","à³¨","à³©","à³ª",
       "à³«","à³¬","à³­","à³®","à³¯">>,
     <<"àµ¦","àµ§","àµ¨","àµ©","àµª",
       "àµ«","àµ¬","àµ­","àµ®","àµ¯">>,
     <<"à·¦","à·§","à·¨","à·©","à·ª",
       "à·«","à·¬","à·­","à·®","à·¯">>,
     <<"à¹","à¹","à¹","à¹","à¹",
       "à¹","à¹","à¹","à¹","à¹">>,
     <<"à»","à»","à»","à»","à»",
       "à»","à»","à»","à»","à»">>,
     <<"à¼ ","à¼¡","à¼¢","à¼£","à¼¤",
       "à¼¥","à¼¦","à¼§","à¼¨","à¼©">>,
     <<"á","á","á","á","á",
       "á","á","á","á","á">>,
     <<"á","á","á","á","á",
       "á","á","á","á","á">>,
     <<"á ","á¡","á¢","á£","á¤",
       "á¥","á¦","á§","á¨","á©">>,
     <<"á ","á ","á ","á ","á ",
       "á ","á ","á ","á ","á ">>,
     <<"á¥","á¥","á¥","á¥","á¥",
       "á¥","á¥","á¥","á¥","á¥">>,
     <<"á§","á§","á§","á§","á§",
       "á§","á§","á§","á§","á§">>,
     <<"áª","áª","áª","áª","áª",
       "áª","áª","áª","áª","áª">>,
     <<"áª","áª","áª","áª","áª",
       "áª","áª","áª","áª","áª">>,
     <<"á­","á­","á­","á­","á­",
       "á­","á­","á­","á­","á­">>,
     <<"á®°","á®±","á®²","á®³","á®´",
       "á®µ","á®¶","á®·","á®¸","á®¹">>,
     <<"á±","á±","á±","á±","á±",
       "á±","á±","á±","á±","á±">>,
     <<"á±","á±","á±","á±","á±",
       "á±","á±","á±","á±","á±">>,
     <<"ê ","ê¡","ê¢","ê£","ê¤",
       "ê¥","ê¦","ê§","ê¨","ê©">>,
     <<"ê£","ê£","ê£","ê£","ê£",
       "ê£","ê£","ê£","ê£","ê£">>,
     <<"ê¤","ê¤","ê¤","ê¤","ê¤",
       "ê¤","ê¤","ê¤","ê¤","ê¤">>,
     <<"ê§","ê§","ê§","ê§","ê§",
       "ê§","ê§","ê§","ê§","ê§">>,
     <<"ê§°","ê§±","ê§²","ê§³","ê§´",
       "ê§µ","ê§¶","ê§·","ê§¸","ê§¹">>,
     <<"ê©","ê©","ê©","ê©","ê©",
       "ê©","ê©","ê©","ê©","ê©">>,
     <<"ê¯°","ê¯±","ê¯²","ê¯³","ê¯´",
       "ê¯µ","ê¯¶","ê¯·","ê¯¸","ê¯¹">>,
     <<"ï¼","ï¼","ï¼","ï¼","ï¼",
       "ï¼","ï¼","ï¼","ï¼","ï¼">>,
     <<"ð ","ð¡","ð¢","ð£","ð¤",
       "ð¥","ð¦","ð§","ð¨","ð©">>,
     <<"ð´°","ð´±","ð´²","ð´³","ð´´",
       "ð´µ","ð´¶","ð´·","ð´¸","ð´¹">>,
     <<"ð¦","ð§","ð¨","ð©","ðª",
       "ð«","ð¬","ð­","ð®","ð¯">>,
     <<"ð°","ð±","ð²","ð³","ð´",
       "ðµ","ð¶","ð·","ð¸","ð¹">>,
     <<"ð¶","ð·","ð¸","ð¹","ðº",
       "ð»","ð¼","ð½","ð¾","ð¿">>,
     <<"ð","ð","ð","ð","ð",
       "ð","ð","ð","ð","ð">>,
     <<"ð°","ð±","ð²","ð³","ð´",
       "ðµ","ð¶","ð·","ð¸","ð¹">>,
     <<"ð","ð","ð","ð","ð",
       "ð","ð","ð","ð","ð">>,
     <<"ð","ð","ð","ð","ð",
       "ð","ð","ð","ð","ð">>,
     <<"ð","ð","ð","ð","ð",
       "ð","ð","ð","ð","ð">>,
     <<"ð","ð","ð","ð","ð",
       "ð","ð","ð","ð","ð">>,
     <<"ð°","ð±","ð²","ð³","ð´",
       "ðµ","ð¶","ð·","ð¸","ð¹">>,
     <<"ð£ ","ð£¡","ð£¢","ð££","ð£¤",
       "ð£¥","ð£¦","ð£§","ð£¨","ð£©">>,
     <<"ð¥","ð¥","ð¥","ð¥","ð¥",
       "ð¥","ð¥","ð¥","ð¥","ð¥">>,
     <<"ð±","ð±","ð±","ð±","ð±",
       "ð±","ð±","ð±","ð±","ð±">>,
     <<"ðµ","ðµ","ðµ","ðµ","ðµ",
       "ðµ","ðµ","ðµ","ðµ","ðµ">>,
     <<"ð¶ ","ð¶¡","ð¶¢","ð¶£","ð¶¤",
       "ð¶¥","ð¶¦","ð¶§","ð¶¨","ð¶©">>,
     <<"ð© ","ð©¡","ð©¢","ð©£","ð©¤",
       "ð©¥","ð©¦","ð©§","ð©¨","ð©©">>,
     <<"ð«","ð«","ð«","ð«","ð«",
       "ð«","ð«","ð«","ð«","ð«">>,
     <<"ð­","ð­","ð­","ð­","ð­",
       "ð­","ð­","ð­","ð­","ð­">>,
     <<"ð","ð","ð","ð","ð",
       "ð","ð","ð","ð","ð">>,
     <<"ð","ð","ð","ð","ð",
       "ð","ð","ð","ð ","ð¡">>,
     <<"ð¢","ð£","ð¤","ð¥","ð¦",
       "ð§","ð¨","ð©","ðª","ð«">>,
     <<"ð¬","ð­","ð®","ð¯","ð°",
       "ð±","ð²","ð³","ð´","ðµ">>,
     <<"ð¶","ð·","ð¸","ð¹","ðº",
       "ð»","ð¼","ð½","ð¾","ð¿">>,
     <<"ð","ð","ð","ð","ð",
       "ð","ð","ð","ð","ð">>,
     <<"ð°","ð±","ð²","ð³","ð´",
       "ðµ","ð¶","ð·","ð¸","ð¹">>,
     <<"ð¥","ð¥","ð¥","ð¥","ð¥",
       "ð¥","ð¥","ð¥","ð¥","ð¥">>,
     <<"ð¯°","ð¯±","ð¯²","ð¯³","ð¯´",
       "ð¯µ","ð¯¶","ð¯·","ð¯¸","ð¯¹">>>>
\* \d
Digit ==
    Digit09 \cup {DecimalDigits[r][d] :
                      r \in 1..Len(DecimalDigits), d \in 1..10}
\* the value of a digit of \d as int() reads it
DigitValue ==
    [c \in Digit |->
        IF c \in Digit09
        THEN (CHOOSE d \in 1..10 : DigitChars[d] = c) - 1
        ELSE (CHOOSE d \in 1..10 :
                  \E r \in 1..Len(DecimalDigits) : DecimalDigits[r][d] = c) - 1]
Alpha ==
    Lower \cup Upper
\* [0-9A-Za-z]
Alnum ==
    Alpha \cup Digit09
\* the characters U+0080 .. U+00FF, in the order of their code points
Latin1 ==
    <<"","","","","","","","","","","","","","","","",
      "","","","","","","","","","","","","","","","",
      " ","¡","¢","£","¤","¥","¦","§","¨","©","ª","«","¬","­","®","¯",
      "°","±","²","³","´","µ","¶","·","¸","¹","º","»","¼","½","¾","¿",
      "À","Á","Â","Ã","Ä","Å","Æ","Ç","È","É","Ê","Ë","Ì","Í","Î","Ï",
      "Ð","Ñ","Ò","Ó","Ô","Õ","Ö","×","Ø","Ù","Ú","Û","Ü","Ý","Þ","ß",
      "à","á","â","ã","ä","å","æ","ç","è","é","ê","ë","ì","í","î","ï",
      "ð","ñ","ò","ó","ô","õ","ö","÷","ø","ù","ú","û","ü","ý","þ","ÿ">>
\* c is a character beyond ASCII
BeyondASCII(c) ==
    /\ Len(c) \in 1..4
    /\ \A k \in 1..Len(c) :
           \E b \in 1..Len(Latin1) : Latin1[b] = SubSeq(c, k, k)
\* the k-th byte of the UTF-8 encoding c of a character beyond ASCII, and
\* the code point of a character U+0080 .. U+00FF
ByteAt(c, k) ==
    127 + (CHOOSE b \in 1..Len(Latin1) : Latin1[b] = SubSeq(c, k, k))
\* ord(c) of a character beyond ASCII
ord(c) ==
    CASE Len(c) = 1 -> ByteAt(c, 1)
      [] Len(c) = 2 -> (ByteAt(c, 1) - 192) * 64 + (ByteAt(c, 2) - 128)
      [] Len(c) = 3 -> (ByteAt(c, 1) - 224) * 4096
                       + (ByteAt(c, 2) - 128) * 64 + (ByteAt(c, 3) - 128)
      [] Len(c) = 4 -> (ByteAt(c, 1) - 240) * 262144
                       + (ByteAt(c, 2) - 128) * 4096
                       + (ByteAt(c, 3) - 128) * 64 + (ByteAt(c, 4) - 128)
\* the characters of \w beyond ASCII: the alphanumerics of Unicode, as
\* ranges <<first, last>> of code points
WordRanges ==
    <<<<170,170>>, <<178,179>>, <<181,181>>, <<185,186>>,
      <<188,190>>, <<192,214>>, <<216,246>>, <<248,705>>,
      <<710,721>>, <<736,740>>, <<748,748>>, <<750,750>>,
      <<880,884>>, <<886,887>>, <<890,893>>, <<895,895>>,
      <<902,902>>, <<904,906>>, <<908,908>>, <<910,929>>,
      <<931,1013>>, <<1015,1153>>, <<1162,1327>>, <<1329,1366>>,
      <<1369,1369>>, <<1376,1416>>, <<1488,1514>>, <<1519,1522>>,
      <<1568,1610>>, <<1632,1641>>, <<1646,1647>>, <<1649,1747>>,
      <<1749,1749>>, <<1765,1766>>, <<1774,1788>>, <<1791,1791>>,
      <<1808,1808>>, <<1810,1839>>, <<1869,1957>>, <<1969,1969>>,
      <<1984,2026>>, <<2036,2037>>, <<2042,2042>>, <<2048,2069>>,
      <<2074,2074>>, <<2084,2084>>, <<2088,2088>>, <<2112,2136>>,
      <<2144,2154>>, <<2160,2183>>, <<2185,2190>>, <<2208,2249>>,
      <<2308,2361>>, <<2365,2365>>, <<2384,2384>>, <<2392,2401>>,
      <<2406,2415>>, <<2417,2432>>, <<2437,2444>>, <<2447,2448>>,
      <<2451,2472>>, <<2474,2480>>, <<2482,2482>>, <<2486,2489>>,
      <<2493,2493>>, <<2510,2510>>, <<2524,2525>>, <<2527,2529>>,
      <<2534,2545>>, <<2548,2553>>, <<2556,2556>>, <<2565,2570>>,
      <<2575,2576>>, <<2579,2600>>, <<2602,2608>>, <<2610,2611>>,
      <<2613,2614>>, <<2616,2617>>, <<2649,2652>>, <<2654,2654>>,
      <<2662,2671>>, <<2674,2676>>, <<2693,2701>>, <<2703,2705>>,
      <<2707,2728>>, <<2730,2736>>, <<2738,2739>>, <<2741,2745>>,
      <<2749,2749>>, <<2768,2768>>, <<2784,2785>>, <<2790,2799>>,
      <<2809,2809>>, <<2821,2828>>, <<2831,2832>>, <<2835,2856>>,
      <<2858,2864>>, <<2866,2867>>, <<2869,2873>>, <<2877,2877>>,
      <<2908,2909>>, <<2911,2913>>, <<2918,2927>>, <<2929,2935>>,
      <<2947,2947>>, <<2949,2954>>, <<2958,2960>>, <<2962,2965>>,
      <<2969,2970>>, <<2972,2972>>, <<2974,2975>>, <<2979,2980>>,
      <<2984,2986>>, <<2990,3001>>, <<3024,3024>>, <<3046,3058>>,
      <<3077,3084>>, <<3086,3088>>, <<3090,3112>>, <<3114,3129>>,
      <<3133,3133>>, <<3160,3162>>, <<3165,3165>>, <<3168,3169>>,
      <<3174,3183>>, <<3192,3198>>, <<3200,3200>>, <<3205,3212>>,
      <<3214,3216>>, <<3218,3240>>, <<3242,3251>>, <<3253,3257>>,
      <<3261,3261>>, <<3293,3294>>, <<3296,3297>>, <<3302,3311>>,
      <<3313,3314>>, <<3332,3340>>, <<3342,3344>>, <<3346,3386>>,
      <<3389,3389>>, <<3406,3406>>, <<3412,3414>>, <<3416,3425>>,
      <<3430,3448>>, <<3450,3455>>, <<3461,3478>>, <<3482,3505>>,
      <<3507,3515>>, <<3517,3517>>, <<3520,3526>>, <<3558,3567>>,
      <<3585,3632>>, <<3634,3635>>, <<3648,3654>>, <<3664,3673>>,
      <<3713,3714>>, <<3716,3716>>, <<3718,3722>>, <<3724,3747>>,
      <<3749,3749>>, <<3751,3760>>, <<3762,3763>>, <<3773,3773>>,
      <<3776,3780>>, <<3782,3782>>, <<3792,3801>>, <<3804,3807>>,
      <<3840,3840>>, <<3872,3891>>, <<3904,3911>>, <<3913,3948>>,
      <<3976,3980>>, <<4096,4138>>, <<4159,4169>>, <<4176,4181>>,
      <<4186,4189>>, <<4193,4193>>, <<4197,4198>>, <<4206,4208>>,
      <<4213,4225>>, <<4238,4238>>, <<4240,4249>>, <<4256,4293>>,
      <<4295,4295>>, <<4301,4301>>, <<4304,4346>>, <<4348,4680>>,
      <<4682,4685>>, <<4688,4694>>, <<4696,4696>>, <<4698,4701>>,
      <<4704,4744>>, <<4746,4749>>, <<4752,4784>>, <<4786,4789>>,
      <<4792,4798>>, <<4800,4800>>, <<4802,4805>>, <<4808,4822>>,
      <<4824,4880>>, <<4882,4885>>, <<4888,4954>>, <<4969,4988>>,
      <<4992,5007>>, <<5024,5109>>, <<5112,5117>>, <<5121,5740>>,
      <<5743,5759>>, <<5761,5786>>, <<5792,5866>>, <<5870,5880>>,
      <<5888,5905>>, <<5919,5937>>, <<5952,5969>>, <<5984,5996>>,
      <<5998,6000>>, <<6016,6067>>, <<6103,6103>>, <<6108,6108>>,
      <<6112,6121>>, <<6128,6137>>, <<6160,6169>>, <<6176,6264>>,
      <<6272,6276>>, <<6279,6312>>, <<6314,6314>>, <<6320,6389>>,
      <<6400,6430>>, <<6470,6509>>, <<6512,6516>>, <<6528,6571>>,
      <<6576,6601>>, <<6608,6618>>, <<6656,6678>>, <<6688,6740>>,
      <<6784,6793>>, <<6800,6809>>, <<6823,6823>>, <<6917,6963>>,
      <<6981,6988>>, <<6992,7001>>, <<7043,7072>>, <<7086,7141>>,
      <<7168,7203>>, <<7232,7241>>, <<7245,7293>>, <<7296,7304>>,
      <<7312,7354>>, <<7357,7359>>, <<7401,7404>>, <<7406,7411>>,
      <<7413,7414>>, <<7418,7418>>, <<7424,7615>>, <<7680,7957>>,
      <<7960,7965>>, <<7968,8005>>, <<8008,8013>>, <<8016,8023>>,
      <<8025,8025>>, <<8027,8027>>, <<8029,8029>>, <<8031,8061>>,
      <<8064,8116>>, <<8118,8124>>, <<8126,8126>>, <<8130,8132>>,
      <<8134,8140>>, <<8144,8147>>, <<8150,8155>>, <<8160,8172>>,
      <<8178,8180>>, <<8182,8188>>, <<8304,8305>>, <<8308,8313>>,
      <<8319,8329>>, <<8336,8348>>, <<8450,8450>>, <<8455,8455>>,
      <<8458,8467>>, <<8469,8469>>, <<8473,8477>>, <<8484,8484>>,
      <<8486,8486>>, <<8488,8488>>, <<8490,8493>>, <<8495,8505>>,
      <<8508,8511>>, <<8517,8521>>, <<8526,8526>>, <<8528,8585>>,
      <<9312,9371>>, <<9450,9471>>, <<10102,10131>>, <<11264,11492>>,
      <<11499,11502>>, <<11506,11507>>, <<11517,11517>>, <<11520,11557>>,
      <<11559,11559>>, <<11565,11565>>, <<11568,11623>>, <<11631,11631>>,
      <<11648,11670>>, <<11680,11686>>, <<11688,11694>>, <<11696,11702>>,
      <<11704,11710>>, <<11712,11718>>, <<11720,11726>>, <<11728,11734>>,
      <<11736,11742>>, <<11823,11823>>, <<12293,12295>>, <<12321,12329>>,
      <<12337,12341>>, <<12344,12348>>, <<12353,12438>>, <<12445,12447>>,
      <<12449,12538>>, <<12540,12543>>, <<12549,12591>>, <<12593,12686>>,
      <<12690,12693>>, <<12704,12735>>, <<12784,12799>>, <<12832,12841>>,
      <<12872,12879>>, <<12881,12895>>, <<12928,12937>>, <<12977,12991>>,
      <<13312,19903>>, <<19968,42124>>, <<42192,42237>>, <<42240,42508>>,
      <<42512,42539>>, <<42560,42606>>, <<42623,42653>>, <<42656,42735>>,
      <<42775,42783>>, <<42786,42888>>, <<42891,42954>>, <<42960,42961>>,
      <<42963,42963>>, <<42965,42969>>, <<42994,43009>>, <<43011,43013>>,
      <<43015,43018>>, <<43020,43042>>, <<43056,43061>>, <<43072,43123>>,
      <<43138,43187>>, <<43216,43225>>, <<43250,43255>>, <<43259,43259>>,
      <<43261,43262>>, <<43264,43301>>, <<43312,43334>>, <<43360,43388>>,
      <<43396,43442>>, <<43471,43481>>, <<43488,43492>>, <<43494,43518>>,
      <<43520,43560>>, <<43584,43586>>, <<43588,43595>>, <<43600,43609>>,
      <<43616,43638>>, <<43642,43642>>, <<43646,43695>>, <<43697,43697>>,
      <<43701,43702>>, <<43705,43709>>, <<43712,43712>>, <<43714,43714>>,
      <<43739,43741>>, <<43744,43754>>, <<43762,43764>>, <<43777,43782>>,
      <<43785,43790>>, <<43793,43798>>, <<43808,43814>>, <<43816,43822>>,
      <<43824,43866>>, <<43868,43881>>, <<43888,44002>>, <<44016,44025>>,
      <<44032,55203>>, <<55216,55238>>, <<55243,55291>>, <<63744,64109>>,
      <<64112,64217>>, <<64256,64262>>, <<64275,64279>>, <<64285,64285>>,
      <<64287,64296>>, <<64298,64310>>, <<64312,64316>>, <<64318,64318>>,
      <<64320,64321>>, <<64323,64324>>, <<64326,64433>>, <<64467,64829>>,
      <<64848,64911>>, <<64914,64967>>, <<65008,65019>>, <<65136,65140>>,
      <<65142,65276>>, <<65296,65305>>, <<65313,65338>>, <<65345,65370>>,
      <<65382,65470>>, <<65474,65479>>, <<65482,65487>>, <<65490,65495>>,
      <<65498,65500>>, <<65536,65547>>, <<65549,65574>>, <<65576,65594>>,
      <<65596,65597>>, <<65599,65613>>, <<65616,65629>>, <<65664,65786>>,
      <<65799,65843>>, <<65856,65912>>, <<65930,65931>>, <<66176,66204>>,
      <<66208,66256>>, <<66273,66299>>, <<66304,66339>>, <<66349,66378>>,
      <<66384,66421>>, <<66432,66461>>, <<66464,66499>>, <<66504,66511>>,
      <<66513,66517>>, <<66560,66717>>, <<66720,66729>>, <<66736,66771>>,
      <<66776,66811>>, <<66816,66855>>, <<66864,66915>>, <<66928,66938>>,
      <<66940,66954>>, <<66956,66962>>, <<66964,66965>>, <<66967,66977>>,
      <<66979,66993>>, <<66995,67001>>, <<67003,67004>>, <<67072,67382>>,
      <<67392,67413>>, <<67424,67431>>, <<67456,67461>>, <<67463,67504>>,
      <<67506,67514>>, <<67584,67589>>, <<67592,67592>>, <<67594,67637>>,
      <<67639,67640>>, <<67644,67644>>, <<67647,67669>>, <<67672,67702>>,
      <<67705,67742>>, <<67751,67759>>, <<67808,67826>>, <<67828,67829>>,
      <<67835,67867>>, <<67872,67897>>, <<67968,68023>>, <<68028,68047>>,
      <<68050,68096>>, <<68112,68115>>, <<68117,68119>>, <<68121,68149>>,
      <<68160,68168>>, <<68192,68222>>, <<68224,68255>>, <<68288,68295>>,
      <<68297,68324>>, <<68331,68335>>, <<68352,68405>>, <<68416,68437>>,
      <<68440,68466>>, <<68472,68497>>, <<68521,68527>>, <<68608,68680>>,
      <<68736,68786>>, <<68800,68850>>, <<68858,68899>>, <<68912,68921>>,
      <<69216,69246>>, <<69248,69289>>, <<69296,69297>>, <<69376,69415>>,
      <<69424,69445>>, <<69457,69460>>, <<69488,69505>>, <<69552,69579>>,
      <<69600,69622>>, <<69635,69687>>, <<69714,69743>>, <<69745,69746>>,
      <<69749,69749>>, <<69763,69807>>, <<69840,69864>>, <<69872,69881>>,
      <<69891,69926>>, <<69942,69951>>, <<69956,69956>>, <<69959,69959>>,
      <<69968,70002>>, <<70006,70006>>, <<70019,70066>>, <<70081,70084>>,
      <<70096,70106>>, <<70108,70108>>, <<70113,70132>>, <<70144,70161>>,
      <<70163,70187>>, <<70272,70278>>, <<70280,70280>>, <<70282,70285>>,
      <<70287,70301>>, <<70303,70312>>, <<70320,70366>>, <<70384,70393>>,
      <<70405,70412>>, <<70415,70416>>, <<70419,70440>>, <<70442,70448>>,
      <<70450,70451>>, <<70453,70457>>, <<70461,70461>>, <<70480,70480>>,
      <<70493,70497>>, <<70656,70708>>, <<70727,70730>>, <<70736,70745>>,
      <<70751,70753>>, <<70784,70831>>, <<70852,70853>>, <<70855,70855>>,
      <<70864,70873>>, <<71040,71086>>, <<71128,71131>>, <<71168,71215>>,
      <<71236,71236>>, <<71248,71257>>, <<71296,71338>>, <<71352,71352>>,
      <<71360,71369>>, <<71424,71450>>, <<71472,71483>>, <<71488,71494>>,
      <<71680,71723>>, <<71840,71922>>, <<71935,71942>>, <<71945,71945>>,
      <<71948,71955>>, <<71957,71958>>, <<71960,71983>>, <<71999,71999>>,
      <<72001,72001>>, <<72016,72025>>, <<72096,72103>>, <<72106,72144>>,
      <<72161,72161>>, <<72163,72163>>, <<72192,72192>>, <<72203,72242>>,
      <<72250,72250>>, <<72272,72272>>, <<72284,72329>>, <<72349,72349>>,
      <<72368,72440>>, <<72704,72712>>, <<72714,72750>>, <<72768,72768>>,
      <<72784,72812>>, <<72818,72847>>, <<72960,72966>>, <<72968,72969>>,
      <<72971,73008>>, <<73030,73030>>, <<73040,73049>>, <<73056,73061>>,
      <<73063,73064>>, <<73066,73097>>, <<73112,73112>>, <<73120,73129>>,
      <<73440,73458>>, <<73648,73648>>, <<73664,73684>>, <<73728,74649>>,
      <<74752,74862>>, <<74880,75075>>, <<77712,77808>>, <<77824,78894>>,
      <<82944,83526>>, <<92160,92728>>, <<92736,92766>>, <<92768,92777>>,
      <<92784,92862>>, <<92864,92873>>, <<92880,92909>>, <<92928,92975>>,
      <<92992,92995>>, <<93008,93017>>, <<93019,93025>>, <<93027,93047>>,
      <<93053,93071>>, <<93760,93846>>, <<93952,94026>>, <<94032,94032>>,
      <<94099,94111>>, <<94176,94177>>, <<94179,94179>>, <<94208,100343>>,
      <<100352,101589>>, <<101632,101640>>,
      <<110576,110579>>, <<110581,110587>>,
      <<110589,110590>>, <<110592,110882>>,
      <<110928,110930>>, <<110948,110951>>,
      <<110960,111355>>, <<113664,113770>>,
      <<113776,113788>>, <<113792,113800>>,
      <<113808,113817>>, <<119520,119539>>,
      <<119648,119672>>, <<119808,119892>>,
      <<119894,119964>>, <<119966,119967>>,
      <<119970,119970>>, <<119973,119974>>,
      <<119977,119980>>, <<119982,119993>>,
      <<119995,119995>>, <<119997,120003>>,
      <<120005,120069>>, <<120071,120074>>,
      <<120077,120084>>, <<120086,120092>>,
      <<120094,120121>>, <<120123,120126>>,
      <<120128,120132>>, <<120134,120134>>,
      <<120138,120144>>, <<120146,120485>>,
      <<120488,120512>>, <<120514,120538>>,
      <<120540,120570>>, <<120572,120596>>,
      <<120598,120628>>, <<120630,120654>>,
      <<120656,120686>>, <<120688,120712>>,
      <<120714,120744>>, <<120746,120770>>,
      <<120772,120779>>, <<120782,120831>>,
      <<122624,122654>>, <<123136,123180>>,
      <<123191,123197>>, <<123200,123209>>,
      <<123214,123214>>, <<123536,123565>>,
      <<123584,123627>>, <<123632,123641>>,
      <<124896,124902>>, <<124904,124907>>,
      <<124909,124910>>, <<124912,124926>>,
      <<124928,125124>>, <<125127,125135>>,
      <<125184,125251>>, <<125259,125259>>,
      <<125264,125273>>, <<126065,126123>>,
      <<126125,126127>>, <<126129,126132>>,
      <<126209,126253>>, <<126255,126269>>,
      <<126464,126467>>, <<126469,126495>>,
      <<126497,126498>>, <<126500,126500>>,
      <<126503,126503>>, <<126505,126514>>,
      <<126516,126519>>, <<126521,126521>>,
      <<126523,126523>>, <<126530,126530>>,
      <<126535,126535>>, <<126537,126537>>,
      <<126539,126539>>, <<126541,126543>>,
      <<126545,126546>>, <<126548,126548>>,
      <<126551,126551>>, <<126553,126553>>,
      <<126555,126555>>, <<126557,126557>>,
      <<126559,126559>>, <<126561,126562>>,
      <<126564,126564>>, <<126567,126570>>,
      <<126572,126578>>, <<126580,126583>>,
      <<126585,126588>>, <<126590,126590>>,
      <<126592,126601>>, <<126603,126619>>,
      <<126625,126627>>, <<126629,126633>>,
      <<126635,126651>>, <<127232,127244>>,
      <<130032,130041>>, <<131072,173791>>,
      <<173824,177976>>, <<177984,178205>>,
      <<178208,183969>>, <<183984,191456>>,
      <<194560,195101>>, <<196608,201546>>>>
\* \w, as far as \b needs it
Word(c) ==
    \/ c \in Alnum \cup {"_"}
    \/ /\ BeyondASCII(c)
       /\ \E r \in 1..Len(WordRanges) :
              ord(c) \in WordRanges[r][1]..WordRanges[r][2]
\* \s: [ \t\n\r\f\v], the separators \x1c - \x1f and the white space
\* beyond ASCII
Space ==
    {" ", "\t", "\n", "\r", "\f", "",
     "", "", "", "",
     "", " ", "Â", "Â ", "á", "â", "â", "â", "â",
     "â", "â", "â", "â", "â", "â", "â", "â¨", "â©",
     "â¯", "â", "ã"}
\* [0-9a-f]
Hex ==
    Digit09 \cup {"a","b","c","d","e","f"}

\* the character at position i, "" beyond the ends
Ch(s, i) ==
    IF i \in 1..Len(s) THEN s[i] ELSE ""

\* the end of the longest run of characters of C that starts at i
\* (i - 1 when the run is empty): a greedy X* or X+
RunEnd(s, i, C) ==
    CHOOSE j \in (i - 1)..Len(s) :
        /\ \A k \in i..j : s[k] \in C
        /\ Ch(s, j + 1) \notin C

\* the literal lit occurs in s at position i
LitAt(s, i, lit) ==
    /\ i >= 1
    /\ i + Len(lit) - 1 <= Len(s)
    /\ \A k \in 1..Len(lit) : s[i + k - 1] = lit[k]

\* Python's  lit in s
Contains(s, lit) ==
    \E i \in 1..Len(s) : LitAt(s, i, lit)

\* Python's  s.replace(a, b)  for one-character a and b
Replace(s, a, b) ==
    [i \in 1..Len(s) |-> IF s[i] = a THEN b ELSE s[i]]

Min(S) ==
    CHOOSE x \in S : \A y \in S : x <= y

\* F(v), with v evaluated once: the binding of a local variable
Let(v, F(_)) ==
    CHOOSE r \in {F(x) : x \in {v}} : TRUE

\* int(s) for a string of digits of \d: the value of its first k digits
RECURSIVE IntPrefix(_, _)
IntPrefix(s, k) ==
    IF k = 0 THEN 0
    ELSE 10 * IntPrefix(s, k - 1)
         + DigitValue[s[k]]

int(s) ==
    IntPrefix(s, Len(s))

\* "%d" % n  for n >= 0
RECURSIVE FormatInt(_)
FormatInt(n) ==
    IF n < 10 THEN <<DigitChars[n + 1]>>
    ELSE FormatInt(n \div 10) \o <<DigitChars[(n % 10) + 1]>>

-----------------------------------------------------------------------------
(* The patterns.  X_at(s, i) describes the match of X that starts at       *)
(* position i of s, if there is one.  Every pattern is a                   *)
(* concatenation of literals and greedy runs whose character class         *)
(* excludes the character that must follow, so the greedy match is the     *)
(* only one.                                                               *)

\* \bL(?P<class>[A-Za-z][0-9A-Za-z_$]*\/[0-9A-Za-z_$\/]+);
CLASS_REGEX_at(s, i) ==
    IF ~(/\ Ch(s, i) = "L"
         /\ Ch(s, i + 1) \in Alpha
         /\ i = 1 \/ ~Word(Ch(s, i - 1)))
    THEN 0
    ELSE Let(RunEnd(s, i + 2, Alnum \cup {"_", "$"}), LAMBDA e1 :
         IF Ch(s, e1 + 1) # "/"
         THEN 0
         ELSE Let(RunEnd(s, e1 + 2, Alnum \cup {"_", "$", "/"}), LAMBDA e2 :
              IF e2 >= e1 + 2 /\ Ch(s, e2 + 1) = ";"
              THEN e2 + 1
              ELSE 0))

\* (?P<prefix>0x[0-9a-f]+ line=)(?P<lineno>\d+)
\* the ends of the two groups of the match that starts at i, or None
LINE_REGEX_at(s, i) ==
    IF ~LitAt(s, i, <<"0","x">>)
    THEN None
    ELSE Let(RunEnd(s, i + 2, Hex), LAMBDA e1 :
         IF ~(e1 >= i + 2 /\ LitAt(s, e1 + 1, <<" ","l","i","n","e","=">>))
         THEN None
         ELSE Let(RunEnd(s, e1 + 7, Digit), LAMBDA e2 :
              IF e2 >= e1 + 7
              THEN Some([prefix |-> e1 + 6, lineno |-> e2])
              ELSE None))

\* the groups of the match of LINE_REGEX that starts at i
LINE_REGEX_groups(s, i) ==
    Let(LINE_REGEX_at(s, i)[1], LAMBDA e :
        [prefix |-> SubSeq(s, i, e.prefix),
         lineno |-> SubSeq(s, e.prefix + 1, e.lineno)])

\* LINE_REGEX.search(line): the groups of the leftmost match, or None
LINE_REGEX_search(s) ==
    Let({i \in 1..Len(s) : LINE_REGEX_at(s, i) # None}, LAMBDA P :
        IF P = {} THEN None ELSE Some(LINE_REGEX_groups(s, Min(P))))

\* #\d+\s+:\s+\(in L(?P<class>[A-Za-z][0-9A-Za-z]*\/[0-9A-Za-z_$\/]+);\)
\* the group "class" of the match that starts at i, or None
METHOD_CLS_HDR_REGEX_at(s, i) ==
    IF Ch(s, i) # "#"
    THEN None
    ELSE Let(RunEnd(s, i + 1, Digit), LAMBDA d :
         IF d < i + 1
         THEN None
         ELSE Let(RunEnd(s, d + 1, Space), LAMBDA w1 :
              IF ~(w1 >= d + 1 /\ Ch(s, w1 + 1) = ":")
              THEN None
              ELSE Let(RunEnd(s, w1 + 2, Space), LAMBDA w2 :
                   IF ~(/\ w2 >= w1 + 2
                        /\ LitAt(s, w2 + 1, <<"(","i","n"," ","L">>)
                        /\ Ch(s, w2 + 6) \in Alpha)
                   THEN None
                   ELSE Let(RunEnd(s, w2 + 7, Alnum), LAMBDA e1 :
                        IF Ch(s, e1 + 1) # "/"
                        THEN None
                        ELSE Let(RunEnd(s, e1 + 2, Alnum \cup {"_", "$", "/"}),
                                 LAMBDA e2 :
                             IF /\ e2 >= e1 + 2
                                /\ LitAt(s, e2 + 1, <<";",")">>)
                             THEN Some(SubSeq(s, w2 + 6, e2))
                             ELSE None)))))

\* METHOD_CLS_HDR_REGEX.search(line)
METHOD_CLS_HDR_REGEX_search(s) ==
    Let({i \in 1..Len(s) : METHOD_CLS_HDR_REGEX_at(s, i) # None}, LAMBDA P :
        IF P = {} THEN None ELSE METHOD_CLS_HDR_REGEX_at(s, Min(P)))

\* name\s+:\s+\'(?P<method>[<A-Za-z][>A-Za-z0-9_$]*)\'
\* the group "method" of the match that starts at i, or None
METHOD_REGEX_at(s, i) ==
    IF ~LitAt(s, i, <<"n","a","m","e">>)
    THEN None
    ELSE Let(RunEnd(s, i + 4, Space), LAMBDA w1 :
         IF ~(w1 >= i + 4 /\ Ch(s, w1 + 1) = ":")
         THEN None
         ELSE Let(RunEnd(s, w1 + 2, Space), LAMBDA w2 :
              IF ~(/\ w2 >= w1 + 2
                   /\ Ch(s, w2 + 1) = "'"
                   /\ Ch(s, w2 + 2) \in Alpha \cup {"<"})
              THEN None
              ELSE Let(RunEnd(s, w2 + 3, Alnum \cup {">", "_", "$"}),
                       LAMBDA e :
                   IF Ch(s, e + 1) = "'"
                   THEN Some(SubSeq(s, w2 + 2, e))
                   ELSE None)))

\* METHOD_REGEX.search(line)
METHOD_REGEX_search(s) ==
    Let({i \in 1..Len(s) : METHOD_REGEX_at(s, i) # None}, LAMBDA P :
        IF P = {} THEN None ELSE METHOD_REGEX_at(s, Min(P)))

\* CLS_CHUNK_HDR_REGEX.match(line):  "  [A-Z]" at the start of the line
CLS_CHUNK_HDR_REGEX_match(s) ==
    /\ LitAt(s, 1, <<" "," ">>)
    /\ Ch(s, 3) \in Upper

\* CLS_HDR_REGEX.match(line):  "Class #" at the start of the line
CLS_HDR_REGEX_match(s) ==
    LitAt(s, 1, <<"C","l","a","s","s"," ","#">>)

-----------------------------------------------------------------------------
(* The symbol tables of one run (SymbolMaps).  They are read-only after    *)
(* construction.  Class names and method names are the renamed ones.       *)

\* symbol_maps.class_map: renamed class -> original class, dotted
\*   {"a.B": "p.q.R"}
class_map ==
    (<<"a",".","B">> :> <<"p",".","q",".","R">>)

\* the frames of symbol_maps.line_map, by zero-based line
PositionMap ==
    (0 :> <<[file |-> <<"F",".","j">>, line |-> 10]>>)
    @@ (1 :> <<>>)
    @@ (2 :> <<[file |-> <<"A",".","j">>, line |-> 3],
               [file |-> <<"B",".","j">>, line |-> 20]>>)
    @@ (3 :> <<[file |-> <<"F",".","j">>, line |-> 4]>>)
    @@ (6 :> <<[file |-> <<"F",".","j">>, line |-> 12]>>)
    @@ (7 :> <<[file |-> <<"B",".","j">>, line |-> 5],
               [file |-> <<"A",".","j">>, line |-> 9]>>)

\* symbol_maps.line_map.get_stack(line): the frames, none when unmapped
get_stack(n) ==
    IF n \in DOMAIN PositionMap THEN PositionMap[n] ELSE <<>>

\* the entries of symbol_maps.debug_line_map:
\* (method id, raw line) -> true debug line
DebugLines ==
    (<<1, 1>> :> 7) @@ (<<1, 2>> :> 7) @@ (<<1, 3>> :> 8) @@ (<<1, 4>> :> 0)
    @@ (<<2, 1>> :> 7)

\* symbol_maps.debug_line_map.find_line_number(method_id, lineno), called
\* with the digits of the line annotation: the true line, or None
find_line_number(method_id, lineno) ==
    IF <<method_id, int(lineno)>> \in DOMAIN DebugLines
    THEN Some(DebugLines[<<method_id, int(lineno)>>])
    ELSE None

\* symbol_maps.iodi_metadata.collision_free: qualified method -> method id
\*   {"a.B.f": 1, "a.B.h": 2}; the methods of c.D collide and are absent
collision_free ==
    (<<"a",".","B",".","f">> :> 1) @@ (<<"a",".","B",".","h">> :> 2)

\* Python's truth value of an optional integer: None and 0 are false
Truthy(o) ==
    o # None /\ o[1] # 0

-----------------------------------------------------------------------------
(* The stateless rewriters.                                                *)

\* ", ".join(parts), from part k on
RECURSIVE JoinFrom(_, _)
JoinFrom(parts, k) ==
    IF k > Len(parts) THEN <<>>
    ELSE IF k = Len(parts) THEN parts[k]
    ELSE parts[k] \o <<",", " ">> \o JoinFrom(parts, k + 1)

Join(parts) ==
    JoinFrom(parts, 1)

\* ", ".join(map(lambda p: "%s:%d" % (p.file, p.line), get_stack(n)))
Positions(n) ==
    Let(get_stack(n), LAMBDA st :
        Let([k \in 1..Len(st) |->
                 st[k].file \o <<":">> \o FormatInt(st[k].line)],
            LAMBDA parts : Join(parts)))

\* class_replacer, on the group "class" of a match
class_replacer(m) ==
    LET cls == Replace(m, "/", ".")
    IN  IF cls \in DOMAIN class_map
        THEN <<"L">> \o Replace(class_map[cls], ".", "/") \o <<";">>
        ELSE <<"L">> \o m \o <<";">>

\* line_replacer, on the groups of a match
line_replacer_SameLine(g) ==
    g.prefix \o Positions(int(g.lineno))

line_replacer(g) ==
    g.prefix \o Positions(int(g.lineno) - 1)

\* CLASS_REGEX.sub(class_replacer, s), from position i on
RECURSIVE CLASS_REGEX_sub(_, _)
CLASS_REGEX_sub(s, i) ==
    IF i > Len(s) THEN <<>>
    ELSE Let(CLASS_REGEX_at(s, i), LAMBDA e :
         IF e > 0
         THEN class_replacer(SubSeq(s, i + 1, e - 1))
              \o CLASS_REGEX_sub(s, e + 1)
         ELSE <<s[i]>> \o CLASS_REGEX_sub(s, i + 1))

\* LINE_REGEX.sub(line_replacer, s), from position i on
RECURSIVE LINE_REGEX_sub(_, _)
LINE_REGEX_sub(s, i) ==
    IF i > Len(s) THEN <<>>
    ELSE Let(LINE_REGEX_at(s, i), LAMBDA e :
         IF e # None
         THEN line_replacer(LINE_REGEX_groups(s, i))
              \o LINE_REGEX_sub(s, e[1].lineno + 1)
         ELSE <<s[i]>> \o LINE_REGEX_sub(s, i + 1))

\* the last two statements of symbolicate: the class-name rewrite followed
\* by the simple line-position rewrite
Rewrite(line) ==
    Let(CLASS_REGEX_sub(line, 1), LAMBDA s : LINE_REGEX_sub(s, 1))

-----------------------------------------------------------------------------
(* The input lines of a dexdump stream.                                    *)

\* "    #0 : (in La/B;)\n"
HdrAB ==
    <<" "," "," "," ","#","0"," ",":"," ","(","i","n"," ","L","a","/","B",";",")","\n">>
\* "    #1 : (in Lc/D;)\n"
HdrCD ==
    <<" "," "," "," ","#","1"," ",":"," ","(","i","n"," ","L","c","/","D",";",")","\n">>
\* "    name : 'f'\n"
NameF ==
    <<" "," "," "," ","n","a","m","e"," ",":"," ","'","f","'","\n">>
\* "    name : 'h'\n"
NameH ==
    <<" "," "," "," ","n","a","m","e"," ",":"," ","'","h","'","\n">>
\* "    0x0 line=1\n"
Ins1 ==
    <<" "," "," "," ","0","x","0"," ","l","i","n","e","=","1","\n">>
\* "    0x2 line=2\n"
Ins2 ==
    <<" "," "," "," ","0","x","2"," ","l","i","n","e","=","2","\n">>
\* "    0x4 line=3\n"
Ins3 ==
    <<" "," "," "," ","0","x","4"," ","l","i","n","e","=","3","\n">>
\* "    0x1a line=04\n"
Ins4 ==
    <<" "," "," "," ","0","x","1","a"," ","l","i","n","e","=","0","4","\n">>
\* "  Direct methods -\n"
Direct ==
    <<" "," ","D","i","r","e","c","t"," ","m","e","t","h","o","d","s"," ","-","\n">>
\* "  Static fields -\n"
Fields ==
    <<" "," ","S","t","a","t","i","c"," ","f","i","e","l","d","s"," ","-","\n">>
\* "Class #0 -\n"
ClassHdr ==
    <<"C","l","a","s","s"," ","#","0"," ","-","\n">>
\* "    access : 0x1\n"
Plain ==
    <<" "," "," "," ","a","c","c","e","s","s"," ",":"," ","0","x","1","\n">>
\* "  A 0x6 line=3\n": a subsection header with a line annotation
ChunkIns ==
    <<" "," ","A"," ","0","x","6"," ","l","i","n","e","=","3","\n">>
\* "Class #1 0x8 line=1\n": a class header with a line annotation
ClassIns ==
    <<"C","l","a","s","s"," ","#","1"," ","0","x","8"," ","l","i","n","e","=","1","\n">>

\* "    type : '(ILa/B;)V'\n": a method prototype, the class after an int
TypeSig ==
    <<" "," "," "," ","t","y","p","e"," ",":"," ","'","(","I","L","a","/","B",";",")","V","'","\n">>

\* the lines passed to symbolicate
Lines ==
    {HdrAB, HdrCD, NameF, NameH, Ins1, Ins2, Ins3, Ins4,
     Direct, Fields, ClassHdr, Plain, ChunkIns, ClassIns, TypeSig}

\* "\n": an empty line
Blank ==
    <<"\n">>

\* the lines that stdin delivers to the driver
ReaderLines ==
    {Blank, ClassHdr, HdrAB, NameF, Ins1}

\* What the patterns find in a line and what the rewriters make of it.
\* It depends on the line only and is computed once per line.
Scan(line) ==
    [hdr     |-> METHOD_CLS_HDR_REGEX_search(line),
     meth    |-> METHOD_REGEX_search(line),
     ins     |-> LINE_REGEX_search(line),
     chunk   |-> CLS_CHUNK_HDR_REGEX_match(line),
     methods |-> \/ Contains(line, <<"D","i","r","e","c","t"," ",
                                     "m","e","t","h","o","d","s">>)
                 \/ Contains(line, <<"V","i","r","t","u","a","l"," ",
                                     "m","e","t","h","o","d","s">>),
     cls     |-> CLS_HDR_REGEX_match(line),
     rewrite |-> Rewrite(line)]

Scanned ==
    [line \in Lines \cup ReaderLines |-> Scan(line)]
\* the scan of a line: looked up for the lines of Scanned, made for any
\* other line
ScanOf(line) ==
    IF line \in DOMAIN Scanned THEN Scanned[line] ELSE Scan(line)

-----------------------------------------------------------------------------
(* The session state and symbolicate.  self is the record of the fields    *)
(* of a DexdumpSymbolicator; iodi is symbol_maps.iodi_metadata, None or    *)
(* the collision-free map.                                                 *)

\* DexdumpSymbolicator.__init__
NewSymbolicator ==
    [reading_methods   |-> FALSE,
     current_class     |-> None,
     current_method_id |-> None,
     last_line         |-> None]

\* reset_state
reset_state_ClassOnly(self) ==
    [self EXCEPT !.current_class = None]

reset_state(self) ==
    [self EXCEPT !.current_class = None,
                 !.current_method_id = None,
                 !.last_line = None]

\* The method-name declaration step: the qualified name of the method is
\* looked up in the collision-free map and, when found, its id is recorded.
MethodStep(self, iodi, meth) ==
    LET qualified_method ==
            Replace(self.current_class[1], "/", ".") \o <<".">> \o meth
    IN  IF qualified_method \in DOMAIN iodi
        THEN [self EXCEPT !.current_method_id = Some(iodi[qualified_method])]
        ELSE self

\* The instruction-line step, on the groups of the line annotation.  The
\* result is the state, whether symbolicate returns from inside the step,
\* and the value it then returns.
InstructionStep_NoGuard(self, ins) ==
    LET mapped_line ==
            find_line_number(self.current_method_id[1], ins.lineno)
    IN  IF self.last_line = mapped_line
        THEN [self |-> self, returned |-> TRUE, ret |-> None]
        ELSE IF ~Truthy(mapped_line)
        THEN [self |-> self, returned |-> FALSE, ret |-> None]
        ELSE [self |-> [self EXCEPT !.last_line = mapped_line],
              returned |-> TRUE,
              ret |-> Some(<<" "," "," "," "," "," "," "," ">>
                           \o ins.prefix
                           \o Positions(mapped_line[1] - 1)
                           \o <<"\n">>)]

InstructionStep(self, ins) ==
    LET mapped_line ==
            find_line_number(self.current_method_id[1], ins.lineno)
    IN  IF ~Truthy(mapped_line)
        THEN [self |-> self, returned |-> FALSE, ret |-> None]
        ELSE IF self.last_line = mapped_line
        THEN \* Don't emit duplicate line entries
             [self |-> self, returned |-> TRUE, ret |-> None]
        ELSE [self |-> [self EXCEPT !.last_line = mapped_line],
              returned |-> TRUE,
              ret |-> Some(<<" "," "," "," "," "," "," "," ">>
                           \o ins.prefix
                           \o Positions(mapped_line[1] - 1)
                           \o <<"\n">>)]

\* The class / method / instruction-line steps of symbolicate, in the
\* order of the if / elif chain.
TrackMethod(self, iodi, line) ==
    LET hdr    == ScanOf(line).hdr
        meth   == ScanOf(line).meth
        ins    == ScanOf(line).ins
        go(s)  == [self |-> s, returned |-> FALSE, ret |-> None]
    IN  IF hdr # None
        THEN go([self EXCEPT !.current_class = hdr])
        ELSE IF self.current_class = None
        THEN go(self)
        ELSE IF meth # None
        THEN go(MethodStep(self, iodi, meth[1]))
        ELSE IF self.current_method_id = None \/ ins = None
        THEN go(self)
        ELSE InstructionStep(self, ins[1])

\* The section-boundary step of symbolicate.
SectionBoundary_Implicit(self, line) ==
    IF ScanOf(line).chunk
    THEN LET reading == ScanOf(line).methods
             s == [self EXCEPT !.reading_methods = reading]
         IN  IF ~reading THEN reset_state(s) ELSE s
    ELSE reset_state([self EXCEPT !.reading_methods = FALSE])

SectionBoundary(self, line) ==
    IF ScanOf(line).chunk
    THEN LET reading == ScanOf(line).methods
             s == [self EXCEPT !.reading_methods = reading]
         IN  IF ~reading THEN reset_state(s) ELSE s
    ELSE IF ScanOf(line).cls
    THEN reset_state([self EXCEPT !.reading_methods = FALSE])
    ELSE self

symbolicate_BoundaryAlways(self, iodi, line) ==
    IF iodi = None
    THEN [self |-> SectionBoundary(self, line),
          ret |-> Some(ScanOf(line).rewrite)]
    ELSE LET t == TrackMethod(self, iodi[1], line)
         IN  IF t.returned
             THEN [self |-> t.self, ret |-> t.ret]
             ELSE [self |-> SectionBoundary(t.self, line),
                   ret |-> Some(ScanOf(line).rewrite)]

symbolicate_ConsumesBoundary(self, iodi, line) ==
    IF iodi = None
    THEN [self |-> self, ret |-> Some(ScanOf(line).rewrite)]
    ELSE LET t == TrackMethod(self, iodi[1], line)
         IN  IF t.returned
             THEN [self |-> t.self, ret |-> t.ret]
             ELSE [self |-> SectionBoundary(t.self, line),
                   ret |-> IF ScanOf(line).chunk \/ ScanOf(line).cls
                           THEN None
                           ELSE Some(ScanOf(line).rewrite)]

\* symbolicate(line) in state self: the state afterwards and the returned
\* value, None or a string
symbolicate(self, iodi, line) ==
    IF iodi = None
    THEN [self |-> self, ret |-> Some(ScanOf(line).rewrite)]
    ELSE LET t == TrackMethod(self, iodi[1], line)
         IN  IF t.returned
             THEN [self |-> t.self, ret |-> t.ret]
             ELSE [self |-> SectionBoundary(t.self, line),
                   ret |-> Some(ScanOf(line).rewrite)]

-----------------------------------------------------------------------------
(* The state machine: one DexdumpSymbolicator fed one line per step.       *)

\* the number of past calls of symbolicate that hist keeps
HistLen == 2

\* reading_methods, current_class, current_method_id, last_line: the
\*     fields of the symbolicator (None or a value for the last three)
\* iodi_metadata: symbol_maps.iodi_metadata, None or the collision-free map
\* hist: the last calls of symbolicate: line, state before, returned value
VARIABLES reading_methods, current_class, current_method_id, last_line, iodi_metadata, hist

\* The variables of the driver, main():
\* pc: where main() stands, "not_running" outside of main()
\* input_type: args.input_type, None or one of the choices of --input-type
\* reader: the lines that reader has delivered from stdin, in order
\* first_line: the local variable of that name, a string
\* symbolicator: the class of the symbolicator main() has made, or None
\* writer: the strings written to stdout, in order
\* sniffed: the evaluations of the input-kind detectors, in order
\* calls: the calls of symbolicator.symbolicate, in order: line and result
VARIABLES pc, input_type, reader, first_line, symbolicator, writer, sniffed, calls

mainvars ==
    <<pc, input_type, reader, first_line, symbolicator, writer, sniffed,
      calls>>

vars ==
    <<reading_methods, current_class, current_method_id, last_line,
      iodi_metadata, hist, mainvars>>

\* the fields of the symbolicator as one record
Self ==
    [reading_methods   |-> reading_methods,
     current_class     |-> current_class,
     current_method_id |-> current_method_id,
     last_line         |-> last_line]

\* the last n elements of s
LastN(s, n) ==
    IF Len(s) <= n THEN s ELSE SubSeq(s, Len(s) - n + 1, Len(s))

Init ==
    /\ reading_methods = NewSymbolicator.reading_methods
    /\ current_class = NewSymbolicator.current_class
    /\ current_method_id = NewSymbolicator.current_method_id
    /\ last_line = NewSymbolicator.last_line
    /\ iodi_metadata \in {None, Some(collision_free)}
    /\ hist = <<>>
    \* main() is not running: the object was made by a caller that holds
    \* it and calls symbolicate itself, so the driver has read, made and
    \* written nothing
    /\ pc = "not_running"
    /\ input_type = None
    /\ symbolicator = None
    /\ reader = <<>>
    /\ first_line = <<>>
    /\ writer = <<>>
    /\ sniffed = <<>>
    /\ calls = <<>>

\* one call  symbolicate(line)  on the DexdumpSymbolicator, made by the
\* caller that holds the object; no variable of main() is touched
Symbolicate ==
    \E line \in Lines :
        \E r \in {symbolicate(Self, iodi_metadata, line)} :
            /\ reading_methods' = r.self.reading_methods
            /\ current_class' = r.self.current_class
            /\ current_method_id' = r.self.current_method_id
            /\ last_line' = r.self.last_line
            /\ hist' = LastN(Append(hist, [line |-> line, self |-> Self,
                                           ret |-> r.ret]), HistLen)
            /\ UNCHANGED <<iodi_metadata, mainvars>>

Next ==
    Symbolicate

Spec ==
    Init /\ [][Next]_vars

-----------------------------------------------------------------------------
(* The driver, main() of symbolicator.py, from the first read of stdin on. *)
(* It reads the first line, makes a symbolicator and passes it the first   *)
(* line and then every further line, writing what symbolicate returns.     *)

\* the number of lines that stdin holds at most
MaxInput == 4

\* DexdumpSymbolicator.is_likely_dexdump(line):
\*   re.match(r"^Processing '.*\.dex'", line) or re.search(r"Class #\d+", line)
is_likely_dexdump(line) ==
    \/ /\ LitAt(line, 1, <<"P","r","o","c","e","s","s","i","n","g"," ","'">>)
       /\ \E j \in 13..Len(line) :
              /\ LitAt(line, j, <<".","d","e","x","'">>)
              /\ \A k \in 13..(j - 1) : line[k] # "\n"
    \/ \E i \in 1..Len(line) :
           /\ LitAt(line, i, <<"C","l","a","s","s"," ","#">>)
           /\ Ch(line, i + 7) \in Digit

\* LinesSymbolicator.symbolicate(line)
LinesSymbolicator_symbolicate(line) ==
    LET class_name ==
            Replace(IF Len(line) > 7 THEN SubSeq(line, 1, Len(line) - 7)
                    ELSE <<>>, "/", ".")
    IN  IF class_name \in DOMAIN class_map
        THEN class_map[class_name] \o <<"\n">>
        ELSE line

\* what LogcatSymbolicator.is_likely_logcat(line) may return; the detector
\* of the companion symbolicator is known by its interface only
LogcatSymbolicator_is_likely_logcat(line) ==
    BOOLEAN

\* what LogcatSymbolicator.symbolicate(line) may return: a string or None
LogcatSymbolicator_symbolicate(line) ==
    {None, Some(line)}

\* output(s) on the strings written so far
output_Never(w, s) ==
    w

output(w, s) ==
    IF s # None THEN Append(w, s[1]) ELSE w

\* the input types that --input-type accepts, and None when it is absent
InputTypes ==
    {None, Some("logcat"), Some("dexdump"), Some("lines")}

MainInit ==
    /\ reading_methods = NewSymbolicator.reading_methods
    /\ current_class = NewSymbolicator.current_class
    /\ current_method_id = NewSymbolicator.current_method_id
    /\ last_line = NewSymbolicator.last_line
    /\ iodi_metadata \in {None, Some(collision_free)}
    /\ hist = <<>>
    /\ pc = "read_first"
    /\ input_type \in InputTypes
    /\ reader = <<>>
    /\ first_line = <<>>
    /\ symbolicator = None
    /\ writer = <<>>
    /\ sniffed = <<>>
    /\ calls = <<>>

\* first_line = ""; while first_line == "": first_line = next(reader),
\* one turn of the loop; at the end of stdin main() exits
ReadFirstLine ==
    /\ pc = "read_first"
    /\ first_line = <<>>
    /\ \/ \* StopIteration
          /\ pc' = "exit"
          /\ UNCHANGED <<reader, first_line>>
       \/ \E line \in ReaderLines :
              /\ Len(reader) < MaxInput
              /\ first_line' = line
              /\ reader' = Append(reader, line)
              /\ pc' = IF line = <<>> THEN "read_first" ELSE "select"
    /\ UNCHANGED <<reading_methods, current_class, current_method_id,
                   last_line, iodi_metadata, hist, input_type, symbolicator,
                   writer, sniffed, calls>>

\* the if / elif chain that makes the symbolicator.  A detector is
\* evaluated where the "or" before it did not decide.
SelectSymbolicator ==
    /\ pc = "select"
    /\ pc' = "output_first"
    /\ IF input_type = Some("lines")
       THEN /\ symbolicator' = Some("LinesSymbolicator")
            /\ sniffed' = <<>>
       ELSE IF input_type = Some("logcat")
       THEN /\ symbolicator' = Some("LogcatSymbolicator")
            /\ sniffed' = <<>>
       ELSE \E likely_logcat \in
                   LogcatSymbolicator_is_likely_logcat(first_line) :
            LET logcat == [detector |-> "is_likely_logcat",
                           line |-> first_line, result |-> likely_logcat]
                dexdump == [detector |-> "is_likely_dexdump",
                            line |-> first_line,
                            result |-> is_likely_dexdump(first_line)]
            IN  IF likely_logcat
                THEN /\ symbolicator' = Some("LogcatSymbolicator")
                     /\ sniffed' = <<logcat>>
                ELSE IF input_type = Some("dexdump")
                THEN /\ symbolicator' = Some("DexdumpSymbolicator")
                     /\ sniffed' = <<logcat>>
                ELSE IF dexdump.result
                THEN /\ symbolicator' = Some("DexdumpSymbolicator")
                     /\ sniffed' = <<logcat, dexdump>>
                ELSE /\ symbolicator' = Some("LogcatSymbolicator")
                     /\ sniffed' = <<logcat, dexdump>>
    /\ UNCHANGED <<reading_methods, current_class, current_method_id,
                   last_line, iodi_metadata, hist, input_type, reader,
                   first_line, writer, calls>>

\* output(symbolicator.symbolicate(line))
OutputLine(line) ==
    IF symbolicator = Some("DexdumpSymbolicator")
    THEN \E r \in {symbolicate(Self, iodi_metadata, line)} :
             /\ reading_methods' = r.self.reading_methods
             /\ current_class' = r.self.current_class
             /\ current_method_id' = r.self.current_method_id
             /\ last_line' = r.self.last_line
             /\ writer' = output(writer, r.ret)
             /\ calls' = Append(calls, [line |-> line, ret |-> r.ret])
    ELSE /\ \E ret \in IF symbolicator = Some("LinesSymbolicator")
                       THEN {Some(LinesSymbolicator_symbolicate(line))}
                       ELSE LogcatSymbolicator_symbolicate(line) :
                /\ writer' = output(writer, ret)
                /\ calls' = Append(calls, [line |-> line, ret |-> ret])
         /\ UNCHANGED <<reading_methods, current_class, current_method_id,
                        last_line>>

\* output(symbolicator.symbolicate(first_line))
OutputFirstLine ==
    /\ pc = "output_first"
    /\ pc' = "loop"
    /\ OutputLine(first_line)
    /\ UNCHANGED <<iodi_metadata, hist, input_type, reader, first_line,
                   symbolicator, sniffed>>

\* for line in reader: output(symbolicator.symbolicate(line)), one turn
OutputNextLine ==
    /\ pc = "loop"
    /\ symbolicator # None
    /\ \/ \* the end of stdin
          /\ pc' = "exit"
          /\ UNCHANGED <<reading_methods, current_class, current_method_id,
                         last_line, reader, writer, calls>>
       \/ \E line \in ReaderLines :
              /\ Len(reader) < MaxInput
              /\ pc' = "loop"
              /\ reader' = Append(reader, line)
              /\ OutputLine(line)
    /\ UNCHANGED <<iodi_metadata, hist, input_type, first_line,
                   symbolicator, sniffed>>

MainNext ==
    \/ ReadFirstLine
    \/ SelectSymbolicator
    \/ OutputFirstLine
    \/ OutputNextLine

MainSpec ==
    MainInit /\ [][MainNext]_vars

-----------------------------------------------------------------------------
(* Vocabulary of the properties.  A call is an element of hist: the line,  *)
(* the state before the call and the returned value.  The state after the  *)
(* latest call is the current state.                                       *)

\* the alternate debug encoding is active
Active ==
    iodi_metadata # None

\* there is a latest call
Called ==
    Len(hist) >= 1

\* the latest call, and the one before it
Cur ==
    hist[Len(hist)]
Prev ==
    hist[Len(hist) - 1]

\* the line matches the method/class section header pattern
IsHeader(line) ==
    Scanned[line].hdr # None

\* the line is a method-name declaration (and no section header)
IsMethodDecl(line) ==
    ~IsHeader(line) /\ Scanned[line].meth # None

\* the line is an instruction line: it carries a line annotation and is
\* neither a section header nor a method-name declaration
IsInstruction(line) ==
    /\ ~IsHeader(line)
    /\ Scanned[line].meth = None
    /\ Scanned[line].ins # None

\* the line matches one of the two section-boundary patterns
IsBoundary(line) ==
    Scanned[line].chunk \/ Scanned[line].cls

\* the qualified name that call c declares, c a method-name declaration
\* made while a class is current
DeclaredMethod(c) ==
    Replace(c.self.current_class[1], "/", ".")
    \o <<".">> \o Scanned[c.line].meth[1]

\* call c is a method-name declaration that resolves to a method id
ResolvedDecl(c) ==
    /\ IsMethodDecl(c.line)
    /\ c.self.current_class # None
    /\ DeclaredMethod(c) \in DOMAIN collision_free

\* call c is a method-name declaration of a method absent from the map
UnresolvedDecl(c) ==
    /\ IsMethodDecl(c.line)
    /\ c.self.current_class # None
    /\ DeclaredMethod(c) \notin DOMAIN collision_free

\* the entry of the debug-line map for the instruction line of call c
\* under the method id current at the call, None when there is none
Remap(c) ==
    find_line_number(c.self.current_method_id[1],
                     Scanned[c.line].ins[1].lineno)

\* call c is an instruction line of the current method
MethodInstruction(c) ==
    /\ IsInstruction(c.line)
    /\ c.self.current_method_id # None

\* call c is an instruction line of the current method that remaps to a
\* true debug line
Remapped(c) ==
    /\ MethodInstruction(c)
    /\ Remap(c) # None
    /\ Remap(c)[1] # 0

\* the expansion emitted for an instruction line remapped to true line t
Expansion(line, t) ==
    <<" "," "," "," "," "," "," "," ">>
    \o Scanned[line].ins[1].prefix
    \o Positions(t - 1)
    \o <<"\n">>

\* the line as the class-name rewriter and then the simple line-position
\* rewriter leave it
SimpleRewrite(line) ==
    Let(CLASS_REGEX_sub(line, 1), LAMBDA s : LINE_REGEX_sub(s, 1))

\* the session fields that scope a method dump
Tracking(self) ==
    <<self.current_class, self.current_method_id, self.last_line>>

-----------------------------------------------------------------------------
(* C1.  Duplicate suppression.  With the alternate encoding active and     *)
(* current_method_id set, when two consecutive instruction lines of the    *)
(* same method both remap to the same true debug line L, the first         *)
(* returns the expansion of L and the second returns None; a following     *)
(* instruction line that remaps to a different true line L2 returns the    *)
(* expansion of L2, and last_line becomes L2.  The first of the two lines  *)
(* is the first of its run: the call before it is no instruction line of   *)
(* the same method remapped to L.                                          *)
(* Stated on a step: hist holds the calls before it, hist' ends with the   *)
(* call of the step.                                                       *)

\* call c is an instruction line of the current method with an entry in
\* the debug-line map
C1_Mapped(c) ==
    /\ MethodInstruction(c)
    /\ Remap(c) # None

\* calls c and d are instruction lines of the same method that remap to
\* the same true debug line
C1_SameLine(c, d) ==
    /\ C1_Mapped(c)
    /\ C1_Mapped(d)
    /\ c.self.current_method_id = d.self.current_method_id
    /\ Remap(c) = Remap(d)

C1_Step ==
    LET n   == Len(hist)
        new == hist'[Len(hist')]
    IN  /\ (/\ Active
            /\ n >= 1
            /\ C1_SameLine(hist[n], new)
            /\ n >= 2 => ~C1_SameLine(hist[n - 1], hist[n]))
           => /\ hist[n].ret = Some(Expansion(hist[n].line, Remap(hist[n])[1]))
              /\ new.ret = None
        /\ (/\ Active
            /\ n >= 2
            /\ C1_SameLine(hist[n - 1], hist[n])
            /\ C1_Mapped(new)
            /\ new.self.current_method_id = hist[n].self.current_method_id
            /\ Remap(new) # Remap(hist[n]))
           => /\ new.ret = Some(Expansion(new.line, Remap(new)[1]))
              /\ last_line' = Remap(new)

C1_DuplicateSuppression ==
    [][C1_Step]_vars

-----------------------------------------------------------------------------
(* C2.  The first instruction line of a method's dump is never             *)
(* suppressed: after a method header and a method-name declaration that    *)
(* resolves to a method id other than the one current before it, an        *)
(* instruction line that comes next and remaps to a true debug line is     *)
(* not answered with None, whatever last_line the previous method left.    *)
(* Stated on a step: hist ends with the header and the declaration, hist'  *)
(* with the instruction line.                                              *)

C2_Step ==
    LET n   == Len(hist)
        new == hist'[Len(hist')]
    IN  (/\ Active
         /\ n >= 2
         /\ IsHeader(hist[n - 1].line)
         /\ ResolvedDecl(hist[n])
         /\ hist[n].self.current_method_id # current_method_id
         /\ Remapped(new)
         /\ ~IsBoundary(new.line))
        => new.ret # None

C2_FirstLineEmitted ==
    [][C2_Step]_vars

-----------------------------------------------------------------------------
(* C3.  After a line that matches the method/class section header pattern  *)
(* (alternate encoding active), current_class is the class of the header   *)
(* and current_method_id and last_line are None.                           *)

C3_HeaderResets ==
    (/\ Active
     /\ Called
     /\ IsHeader(Cur.line)
     /\ ~IsBoundary(Cur.line))
    => /\ current_class = Scanned[Cur.line].hdr
       /\ current_method_id = None
       /\ last_line = None

-----------------------------------------------------------------------------
(* C4.  Collision fallback: an instruction line that follows the           *)
(* declaration of a method absent from the collision-free id map is        *)
(* neither remapped nor suppressed; symbolicate returns it as the simple   *)
(* rewriter leaves it, from its raw line number.                           *)

C4_CollisionFallback ==
    (/\ Active
     /\ Len(hist) >= 2
     /\ UnresolvedDecl(Prev)
     /\ IsInstruction(Cur.line)
     /\ ~IsBoundary(Cur.line))
    => Cur.ret = Some(SimpleRewrite(Cur.line))

-----------------------------------------------------------------------------
(* C5.  Section reset: after a subsection header line that names neither   *)
(* a "Direct methods" nor a "Virtual methods" listing, current_class,      *)
(* current_method_id and last_line are None; an instruction line that      *)
(* follows such a header is returned as the simple rewriter leaves it.     *)

C5_SectionReset ==
    /\ (/\ Active
        /\ Called
        /\ Scanned[Cur.line].chunk
        /\ ~Scanned[Cur.line].methods)
       => Tracking(Self) = <<None, None, None>>
    /\ (/\ Active
        /\ Len(hist) >= 2
        /\ Scanned[Prev.line].chunk
        /\ ~Scanned[Prev.line].methods
        /\ IsInstruction(Cur.line))
       => Cur.ret = Some(SimpleRewrite(Cur.line))

-----------------------------------------------------------------------------
(* C6.  Class boundary reset: after any line that begins with "Class #"    *)
(* (alternate encoding active), current_class, current_method_id and       *)
(* last_line are None and reading_methods is false.                        *)

C6_ClassBoundaryReset ==
    (/\ Active
     /\ Called
     /\ Scanned[Cur.line].cls)
    => /\ Tracking(Self) = <<None, None, None>>
       /\ reading_methods = FALSE

-----------------------------------------------------------------------------
(* C7.  In every state where reading_methods is false, current_class,      *)
(* current_method_id and last_line are None.                               *)

C7_NoTrackingOutsideMethods ==
    (Active /\ ~reading_methods)
    => Tracking(Self) = <<None, None, None>>

-----------------------------------------------------------------------------
(* C8.  Suppression applies only to strict immediate repeats: when         *)
(* symbolicate returns None for an instruction line and the line before    *)
(* it is an instruction line of the same method, that line was remapped    *)
(* to the same true debug line (a line mapped to 0 aside).  In the         *)
(* sequence (line remapped to L,                                           *)
(* instruction line without remap, line remapped to L) the third line is   *)
(* therefore not suppressed.                                               *)

C8_OnlyImmediateRepeats ==
    (/\ Active
     /\ Len(hist) >= 2
     /\ Cur.ret = None
     /\ ~IsBoundary(Cur.line)
     /\ MethodInstruction(Prev)
     /\ Remap(Prev) # Some(0)
     /\ ~IsBoundary(Prev.line))
    => /\ Remapped(Prev)
       /\ Remap(Prev) = Remap(Cur)

-----------------------------------------------------------------------------
(* C9.  Missing remap falls through: when current_method_id is set and     *)
(* the instruction line has no entry in the debug-line map, symbolicate    *)
(* returns the line as the simple rewriter leaves it, and current_class,   *)
(* current_method_id and last_line are as before the call.                 *)

C9_MissingRemapFallsThrough ==
    (/\ Active
     /\ Called
     /\ MethodInstruction(Cur)
     /\ Remap(Cur) = None)
    => /\ Cur.ret = Some(SimpleRewrite(Cur.line))
       /\ Tracking(Self) = Tracking(Cur.self)

(* C9, amended.  The same, the state being as before the call when the     *)
(* line matches neither section-boundary pattern.                          *)

C9_MissingRemapFallsThrough_Amended ==
    (/\ Active
     /\ Called
     /\ MethodInstruction(Cur)
     /\ Remap(Cur) = None)
    => /\ Cur.ret = Some(SimpleRewrite(Cur.line))
       /\ ~IsBoundary(Cur.line) => Self = Cur.self

\* an instruction line without an entry was passed through while a line
\* was on record as emitted
C9_Witness ==
    /\ Active
    /\ Called
    /\ MethodInstruction(Cur)
    /\ Remap(Cur) = None
    /\ ~IsBoundary(Cur.line)
    /\ Cur.self.last_line # None
    /\ Cur.ret = Some(SimpleRewrite(Cur.line))

-----------------------------------------------------------------------------
(* C10.  Without IODI metadata the state machine is inactive: the session  *)
(* state stays as constructed, symbolicate never returns None, and every   *)
(* result is the class-name rewrite followed by the simple line-position   *)
(* rewrite of the line.                                                    *)

C10_InactiveWithoutIodi ==
    (iodi_metadata = None)
    => /\ Self = NewSymbolicator
       /\ \A k \in 1..Len(hist) :
              /\ hist[k].self = NewSymbolicator
              /\ hist[k].ret # None
              /\ hist[k].ret = Some(SimpleRewrite(hist[k].line))

\* without IODI metadata, a methods subsection header, then a method/class
\* section header have been processed
C10_Witness ==
    /\ iodi_metadata = None
    /\ Len(hist) >= 2
    /\ Scanned[Prev.line].chunk
    /\ Scanned[Prev.line].methods
    /\ IsHeader(Cur.line)

-----------------------------------------------------------------------------
(* Vocabulary of the properties of the driver.                             *)

\* the lines passed to symbolicate, in the order of the calls
LinesPassed ==
    [k \in 1..Len(calls) |-> calls[k].line]

\* the strings that symbolicate returned, in the order of the calls
Returned ==
    LET some == SelectSeq(calls, LAMBDA c : c.ret # None)
    IN  [k \in 1..Len(some) |-> some[k].ret[1]]

-----------------------------------------------------------------------------
(* C11.  The driver passes every line it has read, the first line          *)
(* included, to symbolicate of the symbolicator it made, once and in the   *)
(* order of the stream; what is written is the results that are not None,  *)
(* in the order of their lines, each written before the next line is read. *)
(* While the first line awaits its call, nothing else has been read,       *)
(* called or written.                                                      *)

C11_EveryLineOnceInOrder ==
    /\ pc \in {"select", "output_first"}
       => /\ reader = <<first_line>>
          /\ calls = <<>>
          /\ writer = <<>>
    /\ pc \in {"loop", "exit"}
       => /\ LinesPassed = reader
          /\ writer = Returned
    /\ pc = "read_first" => reader = <<>>

\* the driver has passed four lines to a DexdumpSymbolicator, the last
\* was suppressed, and the three results before it are written
C11_Witness ==
    /\ pc = "exit"
    /\ symbolicator = Some("DexdumpSymbolicator")
    /\ Len(calls) = 4
    /\ calls[4].ret = None
    /\ Len(writer) = 3
    /\ writer[3] = calls[3].ret[1]

-----------------------------------------------------------------------------
(* C12.  Simple line expansion.  When a line that carries a line           *)
(* annotation "<hex> line=N" is not consumed by the alternate-encoding     *)
(* path, symbolicate returns the line with the digits N replaced by the    *)
(* frames of get_stack(N - 1), each as file:line, joined by ", " in the    *)
(* order of the stack; all else of the line, the prefix up to "line="      *)
(* included, is kept.  An empty stack leaves the prefix with nothing       *)
(* after it.                                                               *)

\* call c is consumed by the instruction-line step of the alternate
\* encoding: its line is emitted remapped, or suppressed
Consumed(c) ==
    /\ Active
    /\ c.self.current_class # None
    /\ MethodInstruction(c)
    /\ Truthy(Remap(c))

\* the lines that carry a line annotation
Annotated ==
    {line \in Lines : Scanned[line].ins # None}

\* the frames as file:line, joined by ", "
Frames(stack) ==
    Join([k \in 1..Len(stack) |->
              stack[k].file \o <<":">> \o FormatInt(stack[k].line)])

\* an annotated line with the digits of its annotation replaced by the
\* frames of the line before the one they name
SimpleExpansion ==
    [line \in Annotated |->
        LET g  == Scanned[line].ins[1]
            n  == Len(g.prefix) + Len(g.lineno)
            at == Min({i \in 1..Len(line) :
                         LitAt(line, i, g.prefix \o g.lineno)})
        IN  SubSeq(line, 1, at + Len(g.prefix) - 1)
            \o Frames(get_stack(int(g.lineno) - 1))
            \o SubSeq(line, at + n, Len(line))]

C12_SimpleLineExpansion ==
    \A k \in 1..Len(hist) :
        (hist[k].line \in Annotated /\ ~Consumed(hist[k]))
        => hist[k].ret = Some(SimpleExpansion[hist[k].line])

\* "    0x2 line=2\n", whose stack is empty, and "    0x4 line=3\n", whose
\* stack has two frames, were returned expanded by the simple rewriter
C12_Witness ==
    /\ Len(hist) >= 2
    /\ Prev.line = Ins2
    /\ ~Consumed(Prev)
    /\ Prev.ret = Some(<<" "," "," "," ","0","x","2"," ","l","i","n","e","=","\n">>)
    /\ Cur.line = Ins3
    /\ ~Consumed(Cur)
    /\ Cur.ret = Some(<<" "," "," "," ","0","x","4"," ","l","i","n","e","=","A",".","j",":","3",","," ","B",".","j",":","2","0","\n">>)

-----------------------------------------------------------------------------
(* C13.  Class-name rewrite.  In a line that symbolicate returns through   *)
(* the rewriters, every type descriptor L<pkg/Class>; of the line,         *)
(* wherever it stands, is replaced by the descriptor of the original name  *)
(* when its dotted form is a key of class_map and is kept when it is not;  *)
(* the result depends on the line alone, not on the session state.         *)

\* the end of the type descriptor that starts at position i of s,
\* whatever comes before it; 0 when none starts there
Descriptor_at(s, i) ==
    Let(CLASS_REGEX_at(SubSeq(s, i, Len(s)), 1), LAMBDA e :
        IF e = 0 THEN 0 ELSE i + e - 1)

\* the descriptor of the original name of the class of descriptor d
Original(d) ==
    Let(Replace(SubSeq(d, 2, Len(d) - 1), "/", "."), LAMBDA cls :
        IF cls \in DOMAIN class_map
        THEN <<"L">> \o Replace(class_map[cls], ".", "/") \o <<";">>
        ELSE d)

\* s from position i on, every type descriptor replaced by its original
RECURSIVE Renamed(_, _)
Renamed(s, i) ==
    IF i > Len(s) THEN <<>>
    ELSE Let(Descriptor_at(s, i), LAMBDA e :
         IF e > 0
         THEN Original(SubSeq(s, i, e)) \o Renamed(s, e + 1)
         ELSE <<s[i]>> \o Renamed(s, i + 1))

\* the lines without line annotation, their type descriptors replaced
RenamedLines ==
    [line \in Lines \ Annotated |-> Renamed(line, 1)]

C13_ClassRewrite ==
    \A k \in 1..Len(hist) :
        (hist[k].line \notin Annotated)
        => hist[k].ret = Some(RenamedLines[hist[k].line])

-----------------------------------------------------------------------------
(* C14.  A line that holds neither a type descriptor nor a line            *)
(* annotation is returned as it is, in every state: it is not suppressed   *)
(* and not altered, also when it is a section header or a method-name      *)
(* declaration.                                                            *)

\* the lines without type descriptor and without line annotation
Untouched ==
    {line \in Lines \ Annotated :
        \A i \in 1..Len(line) : Descriptor_at(line, i) = 0}

C14_OtherLinesUnchanged ==
    \A k \in 1..Len(hist) :
        (hist[k].line \in Untouched) => hist[k].ret = Some(hist[k].line)

\* with a line on record as emitted, a method-name declaration and then a
\* subsection header were returned as they are
C14_Witness ==
    /\ Active
    /\ Len(hist) >= 2
    /\ Prev.self.last_line # None
    /\ IsMethodDecl(Prev.line)
    /\ Prev.line \in Untouched
    /\ Prev.ret = Some(Prev.line)
    /\ Scanned[Cur.line].chunk
    /\ Cur.line \in Untouched
    /\ Cur.ret = Some(Cur.line)

-----------------------------------------------------------------------------
(* C15.  Transformer selection.  The input-kind detectors are evaluated    *)
(* at most once per run each, on the first line of stdin that is not       *)
(* empty: empty lines that lead the stream are skipped, and are not what   *)
(* first_line holds when the symbolicator is made.                         *)

C15_SniffsFirstNonEmptyLine ==
    /\ \A k \in 1..Len(sniffed) :
           /\ sniffed[k].line # Blank
           /\ \A j \in 1..Len(sniffed) :
                  sniffed[j].detector = sniffed[k].detector => j = k
    /\ symbolicator # None => first_line # Blank

-----------------------------------------------------------------------------
(* C16.  Section-boundary detection is independent of the steps before     *)
(* it.  With the alternate encoding active, after every line that matches  *)
(* the subsection-header pattern reading_methods tells whether the line    *)
(* names a methods listing, and current_class, current_method_id and       *)
(* last_line are None when it does not; after every line that begins with  *)
(* "Class #" reading_methods is false and the three are None.  So it is    *)
(* for a line that the instruction-line step emitted or suppressed.        *)

C16_BoundaryAlwaysHandled ==
    (Active /\ Called)
    => /\ Scanned[Cur.line].chunk
          => /\ reading_methods = Scanned[Cur.line].methods
             /\ ~Scanned[Cur.line].methods
                => Tracking(Self) = <<None, None, None>>
       /\ (~Scanned[Cur.line].chunk /\ Scanned[Cur.line].cls)
          => /\ reading_methods = FALSE
             /\ Tracking(Self) = <<None, None, None>>

-----------------------------------------------------------------------------
(* C17.  A line that matches none of the patterns (method/class header,    *)
(* method-name declaration, line annotation, subsection header, class      *)
(* header) leaves reading_methods, current_class, current_method_id and    *)
(* last_line as they were, in every reachable state.                       *)

\* the line matches none of the patterns of the state machine
NoPattern(line) ==
    /\ Scanned[line].hdr = None
    /\ Scanned[line].meth = None
    /\ Scanned[line].ins = None
    /\ ~Scanned[line].chunk
    /\ ~Scanned[line].cls

C17_UnmatchedLineKeepsState ==
    (Called /\ NoPattern(Cur.line)) => Self = Cur.self

\* a line that matches no pattern was processed while a class, a method
\* and an emitted line were on record
C17_Witness ==
    /\ Active
    /\ Called
    /\ NoPattern(Cur.line)
    /\ Cur.self.current_class # None
    /\ Cur.self.current_method_id # None
    /\ Cur.self.last_line # None
    /\ Self = Cur.self

-----------------------------------------------------------------------------
(* C18.  Whenever current_method_id is set and the debug-line map has an   *)
(* entry T for the method id and the raw line of an instruction line, T    *)
(* other than last_line, symbolicate sets last_line to T and returns       *)
(* eight spaces, the "<hex> line=" prefix of the line, the frames of       *)
(* get_stack(T - 1) joined by ", " and a newline.  So it is for every T,   *)
(* 0 included.                                                             *)

C18_RemappedLineEmitted ==
    (/\ Active
     /\ Called
     /\ MethodInstruction(Cur)
     /\ Remap(Cur) # None
     /\ Remap(Cur) # Cur.self.last_line)
    => /\ last_line = Remap(Cur)
       /\ Cur.ret = Some(<<" "," "," "," "," "," "," "," ">>
                         \o Scanned[Cur.line].ins[1].prefix
                         \o Frames(get_stack(Remap(Cur)[1] - 1))
                         \o <<"\n">>)

-----------------------------------------------------------------------------
(* C19.  The session state is nested: in every reachable state a set       *)
(* last_line comes with a set current_method_id, and a set                 *)
(* current_method_id with a set current_class.  Hence a method-name        *)
(* declaration processed while current_class is None leaves                *)
(* current_method_id None, and an instruction line processed while         *)
(* current_method_id is None is neither remapped nor suppressed: it is     *)
(* returned as the simple rewriter leaves it.                              *)

C19_NestedState ==
    /\ last_line # None => current_method_id # None
    /\ current_method_id # None => current_class # None
    /\ (/\ Called
        /\ IsMethodDecl(Cur.line)
        /\ Cur.self.current_class = None)
       => current_method_id = None
    /\ (/\ Called
        /\ IsInstruction(Cur.line)
        /\ Cur.self.current_method_id = None)
       => /\ Cur.ret = Some(SimpleExpansion[Cur.line])
          /\ last_line = None

\* a header of another class was processed while a method and an emitted
\* line were on record, and they stay on record under the new class
C19_Witness ==
    /\ Active
    /\ Called
    /\ IsHeader(Cur.line)
    /\ Cur.self.last_line # None
    /\ current_class # Cur.self.current_class
    /\ current_class # None
    /\ current_method_id # None
    /\ last_line # None

-----------------------------------------------------------------------------
(* C20.  An input type given on the command line decides the               *)
(* symbolicator: with --input-type dexdump, main() makes a                 *)
(* DexdumpSymbolicator whatever the first line is, also when the logcat    *)
(* detector accepts it.                                                    *)

C20_ExplicitDexdumpDecides ==
    (input_type = Some("dexdump") /\ symbolicator # None)
    => symbolicator = Some("DexdumpSymbolicator")

====
